---- MODULE Spec2Model ----
(***************************************************************************)
(* A model of cad-optimizer-wasm/src/lib.rs: the CADOptimizer aggregate    *)
(* (PerformanceSettings + PerformanceStats), its fps-driven controller,    *)
(* the LOD planner, the mesh decimator, the boolean-operation stubs, the   *)
(* smooth-normal computation and the frustum test.                         *)
(*                                                                         *)
(* Numbers.  f32 values are modelled by exact arithmetic:                  *)
(*   - resolution_scale is a non-negative decimal number, kept as its      *)
(*     digit sequence <<d0, d1, ..., dk>> = d0.d1...dk without trailing    *)
(*     zeros (the factors 0.9 and 1.1 keep it a finite decimal);           *)
(*   - lod_bias is an integer count of twentieths (0.05 = 1, 0.1 = 2);     *)
(*   - fps, coordinates and matrix entries are integers;                   *)
(*   - the decimation ratio is a fraction num / RatioDen;                  *)
(*   - NaN is the value "NaN".                                             *)
(* Rounding of f32 is not modelled.                                        *)
(***************************************************************************)
EXTENDS Integers, Sequences, FiniteSets, TLC

VARIABLES
    settings,   \* CADOptimizer.settings : PerformanceSettings
    stats,      \* CADOptimizer.stats    : PerformanceStats
    op,         \* name of the last exported method that was called
    arg,        \* the argument(s) of that call
    ret,        \* what that call did: <<"Ok", v>>, <<"Err", msg>>, <<"value", v>> or <<"panic", msg>>
    cfgValid    \* history: every configure payload so far was within the documented domain

vars == <<settings, stats, op, arg, ret, cfgValid>>

-----------------------------------------------------------------------------
(* Bounds of the model *)

\* calculate_optimal_settings is not explored in the low-fps zone once
\* resolution_scale has this many fractional digits
MaxDigits == 4
\* ... nor once lod_bias has reached this many twentieths
MaxLodBias == 6
\* the same two bounds for the controller explored without configure
LiveMaxDigits == 7
LiveMaxLodBias == 16
\* the decimation ratios explored are -1 / RatioDen .. MaxRatioNum / RatioDen
RatioDen == 4
MaxRatioNum == 6
\* largest number of triangles of the index buffers given to decimate_mesh
MaxTriangles == 10
\* number of vertices of the small meshes given to boolean_operation / calculate_normals
MaxVerts == 3

-----------------------------------------------------------------------------
(* Decimal arithmetic for resolution_scale.  Every operator binds its       *)
(* arguments once (x \in {X}) and works on the bound values.                *)

RECURSIVE Carry(_, _, _)
\* the carry out of digit position i when the digits D, read as an integer,
\* are multiplied by m
Carry(D, m, i) ==
    IF i > Len(D) THEN 0 ELSE (D[i] * m + Carry(D, m, i + 1)) \div 10

\* digits of (D read as an integer) * m, on Len(D) + 1 digits
MulDigits(D, m) ==
    <<Carry(D, m, 1)>> \o [i \in 1..Len(D) |-> (D[i] * m + Carry(D, m, i + 1)) % 10]

\* drop the trailing zeros of the fractional part
Strip(D) ==
    LET keep == {i \in 1..Len(D) : i = 1 \/ D[i] # 0}
        last == CHOOSE i \in keep : \A j \in keep : j <= i
    IN  SubSeq(D, 1, last)

\* X * (m / 10): d0.d1..dk times m is the integer D*m with k+1 fractional digits
TimesTenth(X, m) ==
    CHOOSE r \in UNION { { Strip(P) : P \in {MulDigits(D, m)} } : D \in {X} } : TRUE

Digit(D, i) == IF i <= Len(D) THEN D[i] ELSE 0

\* X < Y, comparing digit by digit from the integer digit on
DecLess(X, Y) ==
    \E D \in {X}, E \in {Y} :
        LET n == IF Len(D) > Len(E) THEN Len(D) ELSE Len(E)
        IN  \E i \in 1..n :
                /\ Digit(D, i) < Digit(E, i)
                /\ \A j \in 1..(i - 1) : Digit(D, j) = Digit(E, j)

\* f32::max and f32::min of two such numbers
DecMax(X, Y) == CHOOSE r \in {X, Y} : \A x \in {X, Y} : ~DecLess(r, x)
DecMin(X, Y) == CHOOSE r \in {X, Y} : \A x \in {X, Y} : ~DecLess(x, r)

Half == <<0, 5>>
One == <<1>>

\* twentieths in one unit of lod_bias
LodScale == 20

-----------------------------------------------------------------------------
(* The optimizer aggregate *)

FieldNames ==
    {"target_fps", "resolution_scale", "lod_bias", "max_triangles", "frustum_culling"}

\* CADOptimizer::new: the default settings
DefaultSettings ==
    [target_fps |-> 60, resolution_scale |-> One, lod_bias |-> 0,
     max_triangles |-> 1000000, frustum_culling |-> TRUE]

\* CADOptimizer::new: the zeroed statistics
ZeroStats ==
    [fps |-> 0, frame_time |-> 0, triangle_count |-> 0, draw_calls |-> 0,
     memory_usage |-> 0, gpu_usage |-> 0]

\* serde_wasm_bindgen::to_value(&self.settings): an object with the five fields
ToValue(s) ==
    [target_fps |-> s.target_fps, resolution_scale |-> s.resolution_scale,
     lod_bias |-> s.lod_bias, max_triangles |-> s.max_triangles,
     frustum_culling |-> s.frustum_culling]

\* serde_wasm_bindgen::from_value::<PerformanceSettings>: the derived
\* Deserialize needs an object that carries every field of the struct
FromValue(p) ==
    IF p.has = FieldNames
    THEN [ok |-> TRUE,
          value |-> [target_fps |-> p.v.target_fps,
                     resolution_scale |-> p.v.resolution_scale,
                     lod_bias |-> p.v.lod_bias,
                     max_triangles |-> p.v.max_triangles,
                     frustum_culling |-> p.v.frustum_culling]]
    ELSE [ok |-> FALSE, value |-> "Failed to parse config"]

\* the values a host may put in a configuration object; configure validates
\* none of them, so some lie outside the documented domain
ResValues == {Half, One, <<1, 5>>}
LodValues == {-2 * LodScale, -LodScale, 0, 3}
SettingsValues ==
    { [target_fps |-> m[1], resolution_scale |-> r, lod_bias |-> l,
       max_triangles |-> m[2], frustum_culling |-> m[3]] :
        r \in ResValues, l \in LodValues,
        m \in {<<60, 1000000, TRUE>>, <<30, 500000, FALSE>>} }

\* a payload that lacks one field, or every field
BrokenBase ==
    [target_fps |-> 30, resolution_scale |-> <<0, 7, 5>>, lod_bias |-> 3,
     max_triangles |-> 500000, frustum_culling |-> FALSE]
ConfigPayloads ==
    { [has |-> FieldNames, v |-> c] : c \in SettingsValues }
    \cup { [has |-> FieldNames \ {f}, v |-> BrokenBase] : f \in {"lod_bias"} }
    \cup { [has |-> {}, v |-> BrokenBase] }

InDomain(c) ==
    /\ ~DecLess(c.resolution_scale, Half)
    /\ ~DecLess(One, c.resolution_scale)
    /\ c.lod_bias >= 0

\* the frame rates and the other three statistics a host reports
FpsValues == {20, 24, 36, 48, 60, 72, 80}
StatSamples == { <<16, 1000, 5>> }

\* (mutant of configure: the fields are assigned one by one while parsing)
configureFieldwise(payload) ==
    LET config == FromValue(payload)
    IN  /\ IF config.ok
           THEN /\ settings' = config.value
                /\ ret' = <<"Ok", "unit">>
                /\ cfgValid' = (cfgValid /\ InDomain(config.value))
           ELSE /\ ret' = <<"Err", config.value>>
                /\ settings' = [f \in FieldNames |->
                                  IF f \in payload.has THEN payload.v[f] ELSE settings[f]]
                /\ UNCHANGED cfgValid
        /\ op' = "configure"
        /\ arg' = payload
        /\ UNCHANGED stats

\* CADOptimizer::configure
configure(payload) ==
    LET config == FromValue(payload)
    IN  /\ IF config.ok
           THEN /\ settings' = config.value
                /\ ret' = <<"Ok", "unit">>
                /\ cfgValid' = (cfgValid /\ InDomain(config.value))
           ELSE /\ ret' = <<"Err", config.value>>
                /\ UNCHANGED <<settings, cfgValid>>
        /\ op' = "configure"
        /\ arg' = payload
        /\ UNCHANGED stats

\* CADOptimizer::update_stats
update_stats(fps, frame_time, triangles, draw_calls) ==
    /\ stats' = [stats EXCEPT !.fps = fps, !.frame_time = frame_time,
                              !.triangle_count = triangles,
                              !.draw_calls = draw_calls]
    /\ op' = "update_stats"
    /\ arg' = <<fps, frame_time, triangles, draw_calls>>
    /\ ret' = <<"value", "unit">>
    /\ UNCHANGED <<settings, cfgValid>>

\* (mutant of LowFps: the boundary frame rate counts as low)
LowFpsInclusive(st, s) == 5 * st.fps <= 4 * s.target_fps

\* self.stats.fps < self.settings.target_fps as f32 * 0.8
LowFps(st, s) == 5 * st.fps < 4 * s.target_fps
\* self.stats.fps > self.settings.target_fps as f32 * 1.2
HighFps(st, s) == 5 * st.fps > 6 * s.target_fps

\* (mutant of AdaptedSettings: a high frame rate restores the scale only)
AdaptedSettingsScaleOnly(st, s) ==
    IF LowFps(st, s)
    THEN [s EXCEPT
            !.resolution_scale = DecMax(TimesTenth(s.resolution_scale, 9), Half),
            !.lod_bias = s.lod_bias + 2]
    ELSE IF HighFps(st, s)
    THEN [s EXCEPT
            !.resolution_scale = DecMin(TimesTenth(s.resolution_scale, 11), One)]
    ELSE s

\* (mutant of AdaptedSettings: the two clamps are missing)
AdaptedSettingsUnclamped(st, s) ==
    IF LowFps(st, s)
    THEN [s EXCEPT !.resolution_scale = TimesTenth(s.resolution_scale, 9),
                   !.lod_bias = s.lod_bias + 2]
    ELSE IF HighFps(st, s)
    THEN [s EXCEPT !.resolution_scale = TimesTenth(s.resolution_scale, 11),
                   !.lod_bias = s.lod_bias - 1]
    ELSE s

\* the settings calculate_optimal_settings leaves in self.settings
AdaptedSettings(st, s) ==
    IF LowFps(st, s)
    THEN [s EXCEPT
            !.resolution_scale = DecMax(TimesTenth(s.resolution_scale, 9), Half),
            !.lod_bias = s.lod_bias + 2]
    ELSE IF HighFps(st, s)
    THEN [s EXCEPT
            !.resolution_scale = DecMin(TimesTenth(s.resolution_scale, 11), One),
            !.lod_bias = IF s.lod_bias - 1 > 0 THEN s.lod_bias - 1 ELSE 0]
    ELSE s

\* CADOptimizer::calculate_optimal_settings
calculate_optimal_settings ==
    /\ settings' = AdaptedSettings(stats, settings)
    /\ ret' = <<"Ok", ToValue(settings')>>
    /\ op' = "calculate_optimal_settings"
    /\ arg' = "none"
    /\ UNCHANGED <<stats, cfgValid>>

\* let num_levels = if complexity > 100000 { 4 } else if complexity > 10000 { 3 } else { 2 }
NumLevels(complexity) ==
    IF complexity > 100000 THEN 4 ELSE IF complexity > 10000 THEN 3 ELSE 2

\* (mutant of LodLevelAt: the distance does not grow with the index)
LodLevelAtFlat(i, num_levels, lod_bias) ==
    [detail_ratio |-> <<num_levels - i, num_levels>>,
     distance |-> 50 * (LodScale + lod_bias)]

\* one LodLevel: detail_ratio = 1.0 - i / num_levels, kept as the fraction
\* <<numerator, denominator>>; distance = 50 * (i + 1) * (1 + lod_bias), in twentieths
LodLevelAt(i, num_levels, lod_bias) ==
    [detail_ratio |-> <<num_levels - i, num_levels>>,
     distance |-> (50 * (i + 1)) * (LodScale + lod_bias)]

\* the Vec<LodLevel> built by the loop of calculate_lod_levels
LodLevels(complexity, lod_bias) ==
    LET num_levels == NumLevels(complexity)
    IN  [k \in 1..num_levels |-> LodLevelAt(k - 1, num_levels, lod_bias)]

ComplexityValues == {500, 10000, 10001, 100000, 200000}

\* CADOptimizer::calculate_lod_levels
calculate_lod_levels(complexity) ==
    /\ ret' = <<"Ok", LodLevels(complexity, settings.lod_bias)>>
    /\ op' = "calculate_lod_levels"
    /\ arg' = complexity
    /\ UNCHANGED <<settings, stats, cfgValid>>

\* CADOptimizer::new
Init ==
    /\ settings = DefaultSettings
    /\ stats = ZeroStats
    /\ op = "new"
    /\ arg = "none"
    /\ ret = <<"value", "self">>
    /\ cfgValid = TRUE

Configure == \E payload \in ConfigPayloads : configure(payload)
UpdateStats ==
    \E fps \in FpsValues, s \in StatSamples : update_stats(fps, s[1], s[2], s[3])
\* the low-fps branch is explored only within the bounds
WithinBounds(maxDigits, maxLodBias) ==
    LowFps(stats, settings) =>
        /\ Len(settings.resolution_scale) - 1 < maxDigits
        /\ settings.lod_bias < maxLodBias
CalculateOptimalSettings ==
    WithinBounds(MaxDigits, MaxLodBias) /\ calculate_optimal_settings
CalculateLodLevels == \E c \in ComplexityValues : calculate_lod_levels(c)

Next ==
    \/ Configure
    \/ UpdateStats
    \/ CalculateOptimalSettings
    \/ CalculateLodLevels

\* the controller and the LOD planner, driven by a host
Spec == Init /\ [][Next]_vars

LiveCalculateOptimalSettings ==
    WithinBounds(LiveMaxDigits, LiveMaxLodBias) /\ calculate_optimal_settings

LiveNext ==
    \/ UpdateStats
    \/ LiveCalculateOptimalSettings

\* the controller alone, from create(), under a host that keeps calling
\* calculate_optimal_settings for as long as a call changes anything
SpecLive == Init /\ [][LiveNext]_vars /\ WF_vars(LiveCalculateOptimalSettings)

-----------------------------------------------------------------------------
(* Mesh decimation and the boolean-operation stubs *)

\* isize::MAX of the wasm32 target: Vec::with_capacity panics ("capacity
\* overflow") when the reservation exceeds this many bytes
IsizeMax == 2147483647

\* (mutant of TargetTriangles: the product is rounded, not truncated)
TargetTrianglesRounded(triangle_count, ratio) ==
    LET x == triangle_count * ratio[1]
        rounded == x \div ratio[2] + (IF 2 * (x % ratio[2]) >= ratio[2] THEN 1 ELSE 0)
    IN  IF rounded < 1 THEN 1 ELSE rounded

\* (triangle_count as f32 * ratio).max(1.0) as usize, for ratio = ratio[1] / ratio[2]
TargetTriangles(triangle_count, ratio) ==
    IF triangle_count * ratio[1] < ratio[2]
    THEN 1
    ELSE (triangle_count * ratio[1]) \div ratio[2]

\* (triangle_count as f32 / target_triangles as f32).max(1.0), then `step as usize`
Step(triangle_count, target_triangles) ==
    IF triangle_count < target_triangles THEN 1 ELSE triangle_count \div target_triangles

RECURSIVE DecimationLoop(_, _, _, _, _, _)
\* for i in (0..triangle_count).step_by(step) { if new_indices.len() < target_triangles * 3 { push x 3 } }
DecimationLoop(indices, i, triangle_count, step, target_triangles, new_indices) ==
    IF i >= triangle_count THEN new_indices
    ELSE DecimationLoop(indices, i + step, triangle_count, step, target_triangles,
            IF Len(new_indices) < target_triangles * 3
            THEN new_indices \o <<indices[i * 3 + 1], indices[i * 3 + 2], indices[i * 3 + 3]>>
            ELSE new_indices)

\* CADOptimizer::perform_decimation
perform_decimation(vertices, indices, ratio) ==
    LET triangle_count == Len(indices) \div 3
        target_triangles == TargetTriangles(triangle_count, ratio)
        step == Step(triangle_count, target_triangles)
    IN  IF target_triangles > IsizeMax \div 12   \* Vec::with_capacity(target_triangles * 3) of u32
        THEN <<"panic", "capacity overflow">>
        ELSE <<"Ok", [vertices |-> vertices,
                      indices |-> DecimationLoop(indices, 0, triangle_count, step,
                                                 target_triangles, <<>>)]>>

\* CADOptimizer::decimate_mesh
decimate_mesh(vertices_js, indices_js, ratio) ==
    /\ ret' = perform_decimation(vertices_js, indices_js, ratio)
    /\ op' = "decimate_mesh"
    /\ arg' = [vertices |-> vertices_js, indices |-> indices_js, ratio |-> ratio]
    /\ UNCHANGED <<settings, stats, cfgValid>>

\* CADOptimizer::perform_boolean_union
perform_boolean_union(mesh_a, mesh_b) ==
    LET vertex_offset == Len(mesh_a.vertices) \div 3
    IN  [vertices |-> mesh_a.vertices \o mesh_b.vertices,
         indices |-> mesh_a.indices \o
                     [k \in 1..Len(mesh_b.indices) |-> mesh_b.indices[k] + vertex_offset]]

\* CADOptimizer::perform_boolean_subtract
perform_boolean_subtract(mesh_a, mesh_b) ==
    [vertices |-> mesh_a.vertices, indices |-> mesh_a.indices]

Min(a, b) == IF a < b THEN a ELSE b

\* CADOptimizer::perform_boolean_intersect
perform_boolean_intersect(mesh_a, mesh_b) ==
    [vertices |-> SubSeq(mesh_a.vertices, 1,
                         Min(Len(mesh_a.vertices), Len(mesh_b.vertices))),
     indices |-> SubSeq(mesh_a.indices, 1,
                        Min(Len(mesh_a.indices), Len(mesh_b.indices)))]

\* CADOptimizer::boolean_operation
boolean_operation(operation, mesh_a_js, mesh_b_js) ==
    /\ ret' = CASE operation = "union" ->
                    <<"Ok", perform_boolean_union(mesh_a_js, mesh_b_js)>>
                [] operation = "subtract" ->
                    <<"Ok", perform_boolean_subtract(mesh_a_js, mesh_b_js)>>
                [] operation = "intersect" ->
                    <<"Ok", perform_boolean_intersect(mesh_a_js, mesh_b_js)>>
                [] OTHER -> <<"Err", "Invalid boolean operation">>
    /\ op' = "boolean_operation"
    /\ arg' = [operation |-> operation, mesh_a |-> mesh_a_js, mesh_b |-> mesh_b_js]
    /\ UNCHANGED <<settings, stats, cfgValid>>

-----------------------------------------------------------------------------
(* Smooth normals.  The input coordinates are integers.  A computed f32 is  *)
(* <<n>> for the number n and <<>> for NaN.                                 *)

NaN == <<>>
Num(n) == <<n>>
IsNaN(x) == x = NaN

\* f32 addition and division with NaN propagation (the divisions of this
\* model are exact)
FAdd(a, b) == IF IsNaN(a) \/ IsNaN(b) THEN NaN ELSE Num(a[1] + b[1])
FDiv(a, b) ==
    IF IsNaN(a) \/ IsNaN(b) THEN NaN
    ELSE IF b[1] = 0 THEN NaN   \* 0.0 / 0.0: the only division by zero met here
    ELSE IF a[1] >= 0 THEN Num(a[1] \div b[1]) ELSE Num(-((-a[1]) \div b[1]))

\* f32::sqrt on the perfect squares
Sqrt(n) == CHOOSE r \in 0..n : r * r = n

\* Vec3 - Vec3
VSub(a, b) == <<a[1] - b[1], a[2] - b[2], a[3] - b[3]>>

\* Vec3::cross
Cross(a, b) ==
    <<a[2] * b[3] - a[3] * b[2], a[3] * b[1] - a[1] * b[3], a[1] * b[2] - a[2] * b[1]>>

\* glam Vec3::normalize: self * (1.0 / self.length()); for the zero vector
\* this is 0.0 * inf = NaN in every component
Normalize(v) ==
    LET length == Sqrt(v[1] * v[1] + v[2] * v[2] + v[3] * v[3])
    IN  IF length = 0 THEN <<NaN, NaN, NaN>>
        ELSE <<FDiv(Num(v[1]), Num(length)), FDiv(Num(v[2]), Num(length)),
               FDiv(Num(v[3]), Num(length))>>

\* Vec3::new(vertices[idx * 3], vertices[idx * 3 + 1], vertices[idx * 3 + 2])
VertexAt(vertices, idx) ==
    <<vertices[idx * 3 + 1], vertices[idx * 3 + 2], vertices[idx * 3 + 3]>>

\* the face normal of triangle i (counted from 0)
FaceNormal(vertices, indices, i) ==
    LET v1 == VertexAt(vertices, indices[i * 3 + 1])
        v2 == VertexAt(vertices, indices[i * 3 + 2])
        v3 == VertexAt(vertices, indices[i * 3 + 3])
    IN  Normalize(Cross(VSub(v2, v1), VSub(v3, v1)))

\* normals[idx * 3 + c] += normal.c for idx in [idx1, idx2, idx3], in this order
RECURSIVE AddToVertices(_, _, _)
AddToVertices(normals, idxs, normal) ==
    IF idxs = <<>> THEN normals
    ELSE LET idx == Head(idxs)
         IN  AddToVertices(
                [normals EXCEPT ![idx * 3 + 1] = FAdd(@, normal[1]),
                                ![idx * 3 + 2] = FAdd(@, normal[2]),
                                ![idx * 3 + 3] = FAdd(@, normal[3])],
                Tail(idxs), normal)

RECURSIVE Accumulate(_, _, _, _)
\* the loop over the triangles i .. indices.len() / 3 - 1
Accumulate(vertices, indices, i, normals) ==
    IF i >= Len(indices) \div 3 THEN normals
    ELSE Accumulate(vertices, indices, i + 1,
            AddToVertices(normals,
                <<indices[i * 3 + 1], indices[i * 3 + 2], indices[i * 3 + 3]>>,
                FaceNormal(vertices, indices, i)))

\* the final loop: normals[i] /= length when length > 0.0 (false for NaN)
NormalizeAll(normals, vertex_count) ==
    [k \in 1..Len(normals) |->
        LET i == (k - 1) \div 3
            nx == normals[i * 3 + 1]
            ny == normals[i * 3 + 2]
            nz == normals[i * 3 + 3]
        IN  IF i >= vertex_count \/ IsNaN(nx) \/ IsNaN(ny) \/ IsNaN(nz)
            THEN normals[k]
            ELSE LET length == Sqrt(nx[1] * nx[1] + ny[1] * ny[1] + nz[1] * nz[1])
                 IN  IF length > 0 THEN FDiv(normals[k], Num(length)) ELSE normals[k]]

\* the slice accesses vertices[idx * 3 .. idx * 3 + 2] of the first loop stay
\* inside the slice; otherwise the bounds check panics
AccessesInBounds(vertices, indices) ==
    \A k \in 1..(3 * (Len(indices) \div 3)) : indices[k] * 3 + 2 < Len(vertices)

\* CADOptimizer::compute_smooth_normals
compute_smooth_normals(vertices, indices) ==
    IF ~AccessesInBounds(vertices, indices)
    THEN <<"panic", "index out of bounds">>
    ELSE <<"Ok", NormalizeAll(
                    Accumulate(vertices, indices, 0, [k \in 1..Len(vertices) |-> Num(0)]),
                    Len(vertices) \div 3)>>

\* CADOptimizer::calculate_normals
calculate_normals(vertices_js, indices_js) ==
    /\ ret' = compute_smooth_normals(vertices_js, indices_js)
    /\ op' = "calculate_normals"
    /\ arg' = [vertices |-> vertices_js, indices |-> indices_js]
    /\ UNCHANGED <<settings, stats, cfgValid>>

-----------------------------------------------------------------------------
(* The buffers a host passes *)

RECURSIVE Flatten(_)
\* a sequence of points as a flat coordinate buffer
Flatten(points) ==
    IF points = <<>> THEN <<>> ELSE Head(points) \o Flatten(Tail(points))

\* nv vertices on the x axis
RowVertices(nv) == Flatten([k \in 1..nv |-> <<k, 0, 0>>])

\* an index buffer of len entries that names each vertex once, over len vertices
RampMeshes ==
    { [vertices |-> RowVertices(len), indices |-> [k \in 1..len |-> k - 1]] :
        len \in 0..(3 * MaxTriangles + 2) }

\* small meshes of one triangle or none; <<0, 0, nv>> has an index out of range
SmallMeshes ==
    UNION { { [vertices |-> RowVertices(nv), indices |-> ix] :
                ix \in [1..3 -> 0..(nv - 1)] \cup {<<>>, <<0, 0, nv>>} } :
            nv \in 1..MaxVerts }

Ratios == { <<k, RatioDen>> : k \in (-1)..MaxRatioNum } \cup { <<180000000, 1>> }

\* vertices in the plane z = 0, where every normal is exact
PlanePoints == { <<0, 0, 0>>, <<2, 0, 0>>, <<0, 1, 0>> }
NormalInputs ==
    { [vertices |-> Flatten(ps), indices |-> ix] :
        ps \in [1..MaxVerts -> PlanePoints],
        ix \in [1..3 -> 0..MaxVerts]
               \cup { <<0, 1, 2>> \o t : t \in [1..3 -> 0..(MaxVerts - 1)] } }

\* These methods take &self and leave the optimizer as it is, so every call
\* starts from the same state: one call per behaviour covers them all.
FirstCall == op = "new"

DecimateMesh ==
    FirstCall /\ \E m \in RampMeshes \cup SmallMeshes, ratio \in Ratios :
        decimate_mesh(m.vertices, m.indices, ratio)
BooleanOperation ==
    FirstCall /\ \E operation \in {"union", "subtract", "intersect", "difference"},
       a \in SmallMeshes, b \in SmallMeshes :
        boolean_operation(operation, a, b)
CalculateNormals ==
    FirstCall /\ \E m \in NormalInputs : calculate_normals(m.vertices, m.indices)

MeshNext ==
    \/ DecimateMesh
    \/ BooleanOperation
    \/ CalculateNormals

\* the mesh operations, called by a host on a fresh optimizer
SpecMesh == Init /\ [][MeshNext]_vars

-----------------------------------------------------------------------------
(* The frustum test.  Coordinates and matrix entries are integers. *)

\* glam Mat4::transform_point3 on Mat4::from_cols_array(m) (column-major):
\* x_axis * p.x + y_axis * p.y + z_axis * p.z + w_axis, without the w row
\* and without a perspective divide
transform_point3(m, p) ==
    << m[1] * p[1] + m[5] * p[2] + m[9] * p[3] + m[13],
       m[2] * p[1] + m[6] * p[2] + m[10] * p[3] + m[14],
       m[3] * p[1] + m[7] * p[2] + m[11] * p[3] + m[15] >>

\* (mutant of CornerInside: the far bound z <= 1.0 is missing)
CornerInsideNoFar(clip_pos) ==
    /\ clip_pos[1] >= -clip_pos[3] /\ clip_pos[1] <= clip_pos[3]
    /\ clip_pos[2] >= -clip_pos[3] /\ clip_pos[2] <= clip_pos[3]
    /\ clip_pos[3] >= -1

\* the condition of the `if` in the corner loop
CornerInside(clip_pos) ==
    /\ clip_pos[1] >= -clip_pos[3] /\ clip_pos[1] <= clip_pos[3]
    /\ clip_pos[2] >= -clip_pos[3] /\ clip_pos[2] <= clip_pos[3]
    /\ clip_pos[3] >= -1 /\ clip_pos[3] <= 1

\* the array `corners`
Corners(min, max) ==
    << <<min[1], min[2], min[3]>>, <<max[1], min[2], min[3]>>,
       <<min[1], max[2], min[3]>>, <<max[1], max[2], min[3]>>,
       <<min[1], min[2], max[3]>>, <<max[1], min[2], max[3]>>,
       <<min[1], max[2], max[3]>>, <<max[1], max[2], max[3]>> >>

RECURSIVE CornerLoop(_, _, _)
\* for corner in &corners { if inside { return true } } false
CornerLoop(corners, k, view_proj) ==
    IF k > Len(corners) THEN FALSE
    ELSE IF CornerInside(transform_point3(view_proj, corners[k])) THEN TRUE
    ELSE CornerLoop(corners, k + 1, view_proj)

\* CADOptimizer::check_box_in_frustum
check_box_in_frustum(min, max, view_proj) == CornerLoop(Corners(min, max), 1, view_proj)

\* CADOptimizer::is_in_frustum
is_in_frustum(bbox_min, bbox_max, view_projection_matrix_js) ==
    /\ ret' = <<"value", check_box_in_frustum(bbox_min, bbox_max, view_projection_matrix_js)>>
    /\ op' = "is_in_frustum"
    /\ arg' = [min |-> bbox_min, max |-> bbox_max, matrix |-> view_projection_matrix_js]
    /\ UNCHANGED <<settings, stats, cfgValid>>

\* view-projection matrices: scales on the diagonal, a shear of z by x, a translation
Matrices ==
    { << sx, 0, hz, 0,   0, sy, 0, 0,   0, 0, sz, 0,   t[1], t[2], t[3], 1 >> :
        sx \in {0, 1}, sy \in {0, 1}, sz \in {-1, 1}, hz \in {0, 1},
        t \in ((-1)..1) \X ((-1)..1) \X ((-1)..1) }

\* boxes: a minimum corner and an extent (a negative extent: min above max)
Boxes ==
    { <<mn, <<mn[1] + e[1], mn[2] + e[2], mn[3] + e[3]>> >> :
        mn \in {-1, 0} \X {-1, 0} \X ((-2)..1),
        e \in { <<0, 0, 0>>, <<1, 1, 1>>, <<2, 0, 1>>, <<-1, 1, 0>> } }

IsInFrustum ==
    FirstCall /\ \E b \in Boxes, m \in Matrices : is_in_frustum(b[1], b[2], m)

\* the frustum test, called by a host on a fresh optimizer
SpecFrustum == Init /\ [][IsInFrustum]_vars

-----------------------------------------------------------------------------
(* Properties of the controller and of the LOD planner *)

\* the five fields of two settings agree
SameSettings(a, b) == \A f \in FieldNames : a[f] = b[f]

\* C2: calculate_optimal_settings applies exactly one of three zones, chosen by
\* the stored fps against target_fps: below 0.8 * target_fps the scale becomes
\* max(0.5, scale * 0.9) and lod_bias grows by 0.1; above 1.2 * target_fps the
\* scale becomes min(1.0, scale * 1.1) and lod_bias becomes max(0, lod_bias - 0.05);
\* otherwise (the two boundaries included) neither changes.  The returned
\* settings are the owned settings after the step.
C2_ThreeZones ==
    [][op' = "calculate_optimal_settings" =>
        LET fps == stats.fps
            target == settings.target_fps
            scale == settings.resolution_scale
            bias == settings.lod_bias
            down == TimesTenth(scale, 9)
            up == TimesTenth(scale, 11)
        IN  /\ 10 * fps < 8 * target =>
                /\ settings'.resolution_scale = (IF DecLess(down, Half) THEN Half ELSE down)
                /\ settings'.lod_bias = bias + 2
            /\ 10 * fps > 12 * target =>
                /\ settings'.resolution_scale = (IF DecLess(One, up) THEN One ELSE up)
                /\ settings'.lod_bias = (IF bias >= 1 THEN bias - 1 ELSE 0)
            /\ (10 * fps >= 8 * target /\ 10 * fps <= 12 * target) =>
                /\ settings'.resolution_scale = scale
                /\ settings'.lod_bias = bias
            /\ ret'[1] = "Ok"
            /\ SameSettings(ret'[2], settings')
    ]_vars

\* C2 witness: a call on the boundary fps = 0.8 * target_fps that left a
\* previously lowered scale alone
C2_Witness ==
    /\ op = "calculate_optimal_settings"
    /\ 10 * stats.fps = 8 * settings.target_fps
    /\ settings.resolution_scale = <<0, 8, 1>>
    /\ settings.lod_bias = 4

\* strictly increasing distance, strictly decreasing detail_ratio
Ordered(levels) ==
    \A k \in 1..(Len(levels) - 1) :
        /\ levels[k].distance < levels[k + 1].distance
        /\ levels[k].detail_ratio[1] * levels[k + 1].detail_ratio[2]
             > levels[k + 1].detail_ratio[1] * levels[k].detail_ratio[2]

LevelCount(complexity) ==
    IF complexity > 100000 THEN 4 ELSE IF complexity > 10000 THEN 3 ELSE 2

\* C3 as stated: for every lod_bias the optimizer can hold, calculate_lod_levels
\* returns numLevels levels with strictly increasing distance and strictly
\* decreasing detail_ratio
C3_AsStated ==
    op = "calculate_lod_levels" =>
        /\ ret[1] = "Ok"
        /\ Len(ret[2]) = LevelCount(arg)
        /\ Ordered(ret[2])

\* C3 amended: the same, for every lod_bias greater than -1
C3_OrderedAboveMinusOne ==
    (op = "calculate_lod_levels" /\ settings.lod_bias > -LodScale) =>
        /\ ret[1] = "Ok"
        /\ Len(ret[2]) = LevelCount(arg)
        /\ Ordered(ret[2])

\* C3 witness: four levels planned under a lod_bias raised by the controller
C3_Witness ==
    /\ op = "calculate_lod_levels"
    /\ arg = 200000
    /\ settings.lod_bias = 5
    /\ Len(ret[2]) = 4

\* C4: a configure call whose payload does not parse returns an error and
\* leaves the five settings and the statistics as they were; one that parses
\* replaces all five settings by the supplied values
C4_ConfigureAtomic ==
    [][op' = "configure" =>
        IF arg'.has = FieldNames
        THEN /\ ret'[1] = "Ok"
             /\ \A f \in FieldNames : settings'[f] = arg'.v[f]
        ELSE /\ ret'[1] = "Err"
             /\ \A f \in FieldNames : settings'[f] = settings[f]
             /\ stats' = stats
    ]_vars

\* C4 witness: a payload without lod_bias was refused while the optimizer
\* held settings that differ from it in every field
C4_Witness ==
    /\ op = "configure"
    /\ arg.has = FieldNames \ {"lod_bias"}
    /\ ret[1] = "Err"
    /\ \A f \in FieldNames : settings[f] # arg.v[f]

\* C9: while every configure payload has 0.5 <= resolution_scale <= 1.0 and
\* lod_bias >= 0, the owned settings satisfy the same; and target_fps,
\* max_triangles and frustum_culling change in configure calls only
C9_Domain ==
    /\ [](cfgValid =>
            /\ ~DecLess(settings.resolution_scale, Half)
            /\ ~DecLess(One, settings.resolution_scale)
            /\ settings.lod_bias >= 0)
    /\ [][(\/ settings'.target_fps # settings.target_fps
           \/ settings'.max_triangles # settings.max_triangles
           \/ settings'.frustum_culling # settings.frustum_culling)
          => op' = "configure"]_vars

\* C9 witness: after a valid configure the controller has driven the scale
\* down to the lower clamp
C9_Witness ==
    /\ cfgValid
    /\ op = "calculate_optimal_settings"
    /\ settings.target_fps = 30
    /\ settings.resolution_scale = Half
    /\ settings.lod_bias = 5

\* the stored fps lies above 1.2 * target_fps, resp. below 0.8 * target_fps
\* (over bound variables: TLC's liveness checker rejects a product of state
\* variables inside a temporal formula)
SustainedHigh ==
    \E f \in {stats.fps}, t \in {settings.target_fps} : 10 * f > 12 * t
SustainedLow ==
    \E f \in {stats.fps}, t \in {settings.target_fps} : 10 * f < 8 * t
BestQuality == settings.resolution_scale = One /\ settings.lod_bias = 0
CalledAdapt == op' = "calculate_optimal_settings"

-----------------------------------------------------------------------------
(* Properties of the mesh operations *)

\* the triangles at source positions 0, s, 2s, ... of an index buffer, each
\* triple intact, until T triangles are collected or the source is exhausted,
\* where s = max(1, floor(n / T))
RefSelection(indices, T) ==
    LET n == Len(indices) \div 3
        s == IF n \div T < 1 THEN 1 ELSE n \div T
        avail == (n + s - 1) \div s
        count == IF T < avail THEN T ELSE avail
    IN  [j \in 1..(3 * count) |-> indices[3 * (((j - 1) \div 3) * s) + ((j - 1) % 3) + 1]]

\* max(1, round(n * ratio)), rounding half away from zero
RoundedTarget(n, ratio) ==
    LET x == n * ratio[1]
        r == x \div ratio[2] + (IF 2 * (x % ratio[2]) >= ratio[2] THEN 1 ELSE 0)
    IN  IF r < 1 THEN 1 ELSE r

\* max(1, floor(n * ratio))
FlooredTarget(n, ratio) ==
    LET f == (n * ratio[1]) \div ratio[2]
    IN  IF f < 1 THEN 1 ELSE f

IndicesInRange(vertices, indices) ==
    \A k \in 1..Len(indices) : indices[k] < Len(vertices) \div 3

\* the cross product of the edges of triangle i is the zero vector
Degenerate(vertices, indices, i) ==
    Cross(VSub(VertexAt(vertices, indices[i * 3 + 2]), VertexAt(vertices, indices[i * 3 + 1])),
          VSub(VertexAt(vertices, indices[i * 3 + 3]), VertexAt(vertices, indices[i * 3 + 1])))
      = <<0, 0, 0>>

RECURSIVE WithoutDegenerate(_, _, _)
\* the index buffer without its degenerate triangles, from triangle i on
WithoutDegenerate(vertices, indices, i) ==
    IF i >= Len(indices) \div 3 THEN <<>>
    ELSE (IF Degenerate(vertices, indices, i) THEN <<>>
          ELSE <<indices[i * 3 + 1], indices[i * 3 + 2], indices[i * 3 + 3]>>)
         \o WithoutDegenerate(vertices, indices, i + 1)

\* C5 as stated: a degenerate triangle contributes the zero vector: no NaN is
\* produced and every normal is the one computed from the non-degenerate
\* triangles alone
C5_AsStated ==
    (op = "calculate_normals" /\ IndicesInRange(arg.vertices, arg.indices)) =>
        /\ ret[1] = "Ok"
        /\ \A k \in 1..Len(ret[2]) : ~IsNaN(ret[2][k])
        /\ ret = compute_smooth_normals(arg.vertices,
                    WithoutDegenerate(arg.vertices, arg.indices, 0))

\* C6 as stated: an index buffer with a value >= vertices.length / 3 makes
\* calculateNormals and decimateMesh fail with IndexOutOfRange
C6_AsStated ==
    (/\ op \in {"calculate_normals", "decimate_mesh"}
     /\ ~IndicesInRange(arg.vertices, arg.indices)) =>
        ret[1] = "Err"

\* the Mesh invariant
ValidMesh(m) ==
    /\ Len(m.vertices) % 3 = 0
    /\ Len(m.indices) % 3 = 0
    /\ IndicesInRange(m.vertices, m.indices)

\* C8 as stated: decimateMesh and booleanOperation for "union", "subtract"
\* and "intersect" return a valid mesh when their input meshes are valid
C8_AsStated ==
    /\ (op = "decimate_mesh" /\ ValidMesh(arg) /\ ret[1] = "Ok") => ValidMesh(ret[2])
    /\ (/\ op = "boolean_operation"
        /\ arg.operation \in {"union", "subtract", "intersect"}
        /\ ValidMesh(arg.mesh_a)
        /\ ValidMesh(arg.mesh_b)) =>
            ret[1] = "Ok" /\ ValidMesh(ret[2])

-----------------------------------------------------------------------------
(* Properties of the frustum test *)

\* the corners of the box, transformed
ClipCorners ==
    { transform_point3(arg.matrix, <<x, y, z>>) :
        x \in {arg.min[1], arg.max[1]},
        y \in {arg.min[2], arg.max[2]},
        z \in {arg.min[3], arg.max[3]} }

====
